---- MODULE Spec2Model ----
(***************************************************************************)
(* State-machine model of the S&P 500 daily movers reporter.               *)
(*                                                                         *)
(* Two scripts share one pipeline: sp500_tracker.py (top 10 gainers,       *)
(* mode = "gainers") and sp500_losers.py (top 10 losers, mode = "losers"). *)
(* The variable mode says which script is running; every action follows    *)
(* the statements of main() (and of the module-level startup code) of that *)
(* script in program order.                                                *)
(*                                                                         *)
(* Encodings.                                                              *)
(*   - A cell of the Close table is <<>> (NaN) or <<p>> (price p in cents). *)
(*   - A float produced by pct_change is a record [k, n, d]:               *)
(*       k = "nan", k = "inf" (+infinity) or k = "num" (the rational n/d). *)
(*   - A field of the metadata dict is <<>> (key absent), <<"null">> (key  *)
(*     present, value None) or <<"num", v>> (a number v).                  *)
(*       trailingPE / forwardPE          v in hundredths                   *)
(*       trailingAnnualDividendRate      v in cents per share              *)
(*       dividendYield                   v in units of 0.0001              *)
(*   - Formatted numbers are strings, built digit by digit.                *)
(***************************************************************************)
EXTENDS Integers, Sequences, FiniteSets, TLC

VARIABLES
    mode,          \* which script runs: "gainers" or "losers"
    WEBHOOK_URL,   \* os.getenv("DISCORD_WEBHOOK_URL"): "<unset>", "" or an address
    pc,            \* position of the process
    exit_code,     \* process exit status once terminated, -1 while running
    tickers,       \* main: tickers (column order of the Close table)
    data,          \* main: data = [empty |-> BOOLEAN, close |-> ticker -> <<prior, last>>]
    top_10,        \* main: top_10 / top_10_losers, a sequence of <<ticker, pct>>
    idx,           \* main: 1-based position of the loop over top_10
    close_price,   \* main: close_price of the current entity, in cents
    info,          \* get_company_details: provider response for the current entity
    summary,       \* main: summary of the current entity
    pe_ratio,      \* main: pe_ratio of the current entity
    div_yield,     \* main: div_yield of the current entity
    sink,          \* every requests.post made to the webhook, in order
    net_calls,     \* kinds of provider fetches performed so far
    rendered,      \* tickers for which a chart was rendered (plt.savefig reached)
    attempted,     \* tickers whose loop iteration has begun, in order
    skipped,       \* tickers whose 1-year series came back empty
    translation,   \* what translator.translate did for the current entity
    pending_pace   \* a translation call was made and time.sleep(1) has not run since

vars == <<mode, WEBHOOK_URL, pc, exit_code, tickers, data, top_10, idx,
          close_price, info, summary, pe_ratio, div_yield, sink, net_calls,
          rendered, attempted, skipped, translation, pending_pace>>

-----------------------------------------------------------------------------
(* Bounds and program constants *)

\* Number of constituents the Wikipedia table yields in the pipeline runs.
MaxWikiTickers == 2

\* Number of columns of the Close table in the ranking runs.
NumRankTickers == 11

\* Largest number of columns of a ranking run that carry a special series.
MaxSpecial == 2

\* n of nlargest(n) / nsmallest(n).
TopN == 10

\* summary_en[:300]
SummaryLimit == 300

-----------------------------------------------------------------------------
(* Values *)

NaNCell == <<>>
Cell(p) == <<p>>
IsNaNCell(c) == c = <<>>

Absent == <<>>
Null == <<"null">>
Num(v) == <<"num", v>>
IsNumber(f) == Len(f) = 2

NaN == [k |-> "nan", n |-> 0, d |-> 1]
PosInf == [k |-> "inf", n |-> 1, d |-> 1]
Ratio(n, d) == [k |-> "num", n |-> n, d |-> d]

Min(a, b) == IF a < b THEN a ELSE b
Abs(a) == IF a < 0 THEN 0 - a ELSE a

-----------------------------------------------------------------------------
(* Number formatting: Python's f"{x:.2f}" on the rational n/d, d > 0 *)

\* n/d rounded to the nearest integer, ties to even (n >= 0, d > 0).
RoundHalfEven(n, d) ==
    LET q == n \div d
        r == n % d
    IN  IF 2 * r < d THEN q
        ELSE IF 2 * r > d THEN q + 1
        ELSE IF q % 2 = 0 THEN q ELSE q + 1

TwoDigits(c) == IF c < 10 THEN "0" \o ToString(c) ELSE ToString(c)

\* f"{n/d:.2f}"
Fmt2(n, d) ==
    LET h == RoundHalfEven(Abs(n) * 100, d)
    IN  (IF n < 0 THEN "-" ELSE "") \o ToString(h \div 100) \o "." \o TwoDigits(h % 100)

-----------------------------------------------------------------------------
(* Ranking: data.pct_change().iloc[-1], then nlargest(10) / nsmallest(10) *)

\* pct_change of one column at the last row: last / prior - 1 in IEEE
\* arithmetic. A NaN operand gives NaN, x / 0 gives +inf for x > 0 and
\* NaN for x = 0; nothing in the code guards the division.
pct_change(col) ==
    LET prior == col[1]
        last  == col[2]
    IN  IF IsNaNCell(prior) \/ IsNaNCell(last) THEN NaN
        ELSE IF prior[1] = 0
             THEN (IF last[1] > 0 THEN PosInf ELSE NaN)
             ELSE Ratio(last[1] - prior[1], prior[1])

\* a < b on the floats that are not NaN.
FloatLess(a, b) ==
    IF a.k = "inf" THEN FALSE
    ELSE IF b.k = "inf" THEN TRUE
    ELSE a.n * b.d < b.n * a.d

\* x goes strictly before y in the result of nlargest ("desc") / nsmallest ("asc").
Before(x, y, dir) ==
    IF dir = "desc" THEN FloatLess(y[2], x[2]) ELSE FloatLess(x[2], y[2])

\* Stable sort of a sequence of <<ticker, pct>>: equal values keep the
\* order of appearance (keep = 'first').
RECURSIVE SortStable(_, _)
SortStable(seq, dir) ==
    IF seq = <<>> THEN <<>>
    ELSE LET rest == SortStable(SubSeq(seq, 1, Len(seq) - 1), dir)
             x    == seq[Len(seq)]
             pos  == Cardinality({i \in 1..Len(rest) : ~Before(x, rest[i], dir)})
         IN  SubSeq(rest, 1, pos) \o <<x>> \o SubSeq(rest, pos + 1, Len(rest))

\* returns.nlargest(n) / returns.nsmallest(n): NaN entries are dropped, the
\* rest is ordered and cut to n entries.
selectTop(cols, close, n, dir) ==
    LET returns == [i \in 1..Len(cols) |-> <<cols[i], pct_change(close[cols[i]])>>]
        defined == SelectSeq(returns, LAMBDA e : e[2].k # "nan")
        sorted  == SortStable(defined, dir)
    IN  SubSeq(sorted, 1, Min(n, Len(sorted)))

Direction(m) == IF m = "gainers" THEN "desc" ELSE "asc"

-----------------------------------------------------------------------------
(* Enrichment: get_company_details *)

NO_SUMMARY == "no summary"                           \* both scripts
UNAVAILABLE(m) ==
    IF m = "gainers" THEN "summary unavailable (translation failed)"
    ELSE "summary unavailable"

TextLen(s) ==
    CASE s = "" -> 0
      [] s = "Makes widgets." -> 14
      [] OTHER -> 450

\* summary_en[:300] when len(summary_en) > 300
Truncate(s) == IF TextLen(s) > SummaryLimit THEN s \o "[:300]" ELSE s

\* GoogleTranslator(source='auto', target='zh-TW').translate(text)
translate(s) == "zh-TW(" \o s \o ")"

\* info.get('trailingPE', info.get('forwardPE', 'N/A')) and its formatting.
PeRatio(i) ==
    LET raw == IF i.trailingPE # Absent THEN i.trailingPE
               ELSE IF i.forwardPE # Absent THEN i.forwardPE
               ELSE Absent
    IN  IF raw = Absent THEN "N/A"
        ELSE IF IsNumber(raw) THEN Fmt2(raw[2], 100)
        ELSE "None"

\* sp500_tracker.py: the yield is the raw ratio times 100.
DivYieldBasic(i) ==
    LET raw == i.dividendYield
    IN  IF IsNumber(raw) THEN Fmt2(raw[2], 100) \o "%"
        ELSE "N/A"

\* DivYieldRecomputed without the unit heuristic: the raw ratio is always
\* scaled by 100.
DivYieldRecomputedScaled(i, close) ==
    LET rate == i.trailingAnnualDividendRate
        raw  == i.dividendYield
    IN  IF IsNumber(rate) /\ close > 0
        THEN (IF rate[2] * 100 > 0 THEN Fmt2(rate[2] * 100, close) \o "%"
              ELSE "0.00%")
        ELSE IF IsNumber(raw) THEN Fmt2(raw[2], 100) \o "%"
             ELSE "N/A"

\* sp500_losers.py: trailing dividend over the close, else the raw ratio
\* with the > 0.3 unit heuristic.
DivYieldRecomputed(i, close) ==
    LET rate == i.trailingAnnualDividendRate
        raw  == i.dividendYield
    IN  IF IsNumber(rate) /\ close > 0
        THEN (IF rate[2] * 100 > 0 THEN Fmt2(rate[2] * 100, close) \o "%"
              ELSE "0.00%")
        ELSE IF IsNumber(raw)
             THEN (IF raw[2] > 3000 THEN Fmt2(raw[2], 10000) \o "%"
                   ELSE Fmt2(raw[2], 100) \o "%")
             ELSE "N/A"

DivYield(m, i, close) ==
    IF m = "gainers" THEN DivYieldBasic(i) ELSE DivYieldRecomputed(i, close)

\* get_company_details whose except branch keeps the ratios it had already
\* computed when the translation call raises.
get_company_details_keeps_ratios(m, resp, tr, close) ==
    IF ~resp.ok
    THEN [summary |-> UNAVAILABLE(m), pe_ratio |-> "N/A", div_yield |-> "N/A",
          translated |-> FALSE]
    ELSE LET i  == resp.info
             pe == PeRatio(i)
             dy == DivYield(m, i, close)
         IN  IF i.longBusinessSummary = ""
             THEN [summary |-> NO_SUMMARY, pe_ratio |-> pe, div_yield |-> dy,
                   translated |-> FALSE]
             ELSE IF tr = "raise"
             THEN [summary |-> UNAVAILABLE(m), pe_ratio |-> pe,
                   div_yield |-> dy, translated |-> TRUE]
             ELSE [summary |-> translate(Truncate(i.longBusinessSummary)) \o "...",
                   pe_ratio |-> pe, div_yield |-> dy, translated |-> TRUE]

\* get_company_details(ticker[, close_price]). resp is what ticker_obj.info
\* does ([ok |-> FALSE] when it raises), tr what translator.translate does
\* ("ok" or "raise"). Besides the three returned values the result says
\* whether the translation provider was called.
get_company_details(m, resp, tr, close) ==
    IF ~resp.ok
    THEN [summary |-> UNAVAILABLE(m), pe_ratio |-> "N/A", div_yield |-> "N/A",
          translated |-> FALSE]
    ELSE LET i  == resp.info
             pe == PeRatio(i)
             dy == DivYield(m, i, close)
         IN  IF i.longBusinessSummary = ""
             THEN [summary |-> NO_SUMMARY, pe_ratio |-> pe, div_yield |-> dy,
                   translated |-> FALSE]
             ELSE IF tr = "raise"
             THEN [summary |-> UNAVAILABLE(m), pe_ratio |-> "N/A",
                   div_yield |-> "N/A", translated |-> TRUE]
             ELSE [summary |-> translate(Truncate(i.longBusinessSummary)) \o "...",
                   pe_ratio |-> pe, div_yield |-> dy, translated |-> TRUE]

-----------------------------------------------------------------------------
(* Inputs of the environment *)

Modes == {"gainers", "losers"}

WebhookValues == {"<unset>", "", "https://discord.example/api/webhooks/1"}

\* Python truth value of os.getenv(...): None and "" are falsy.
Falsy(s) == s = "<unset>" \/ s = ""

\* tickers = ['AAPL', 'NVDA', 'MSFT']
FALLBACK == <<"AAPL", "NVDA", "MSFT">>

\* Symbols of the Wikipedia table, in table order.
WikiTickers == [i \in 1..MaxWikiTickers |-> "W" \o ToString(i)]

Range(seq) == {seq[i] : i \in 1..Len(seq)}

\* Last two rows of one column of the 5-day Close table.
ShortSeries ==
    { <<Cell(10000), Cell(11000)>>,      \* +10 %
      <<Cell(10000), Cell(9000)>>,       \* -10 %
      <<Cell(10000), NaNCell>> }         \* no last close

\* Last close of the 1-year series, in cents.
LongCloses == {10000}

NoInfo ==
    [trailingPE |-> Absent, forwardPE |-> Absent,
     trailingAnnualDividendRate |-> Absent, dividendYield |-> Absent,
     longBusinessSummary |-> ""]

InfoRaises == [ok |-> FALSE, info |-> NoInfo]
InfoOk(i) == [ok |-> TRUE, info |-> i]

\* Metadata dicts of the pipeline runs.
PipelineInfos ==
    { [trailingPE |-> Num(2550), forwardPE |-> Absent,
       trailingAnnualDividendRate |-> Num(200), dividendYield |-> Num(450),
       longBusinessSummary |-> "Makes widgets."],
      [trailingPE |-> Absent, forwardPE |-> Num(1800),
       trailingAnnualDividendRate |-> Absent, dividendYield |-> Num(3500),
       longBusinessSummary |-> ""] }

\* Metadata dicts of the enrichment runs.
YieldInfos ==
    [trailingPE : {Absent, Num(2550)},
     forwardPE : {Absent, Null},
     trailingAnnualDividendRate : {Absent, Null, Num(0), Num(1), Num(200), Num(0 - 50)},
     dividendYield : {Absent, Null, Num(0), Num(450), Num(3000), Num(3500)},
     longBusinessSummary : {"", "Makes widgets."}]

YieldCloses == {0, 300, 10000}

\* What requests.post does: it raises, or it returns a response.
PostRaises == [raised |-> TRUE, status |-> 0]
PostOutcomes == {PostRaises} \cup {[raised |-> FALSE, status |-> c] : c \in {200, 500}}

-----------------------------------------------------------------------------
(* Messages: the header post of main and send_to_discord *)

HeaderPost(m, out) ==
    [kind |-> "header",
     ticker |-> "",
     content |-> IF m = "gainers" THEN "S&P 500 top 10 gainers report"
                 ELSE "S&P 500 top 10 losers report",
     file |-> "",
     raised |-> out.raised,
     status |-> out.status]

\* f"{pct_change * 100:.2f}%"
FmtPct(p) == IF p.k = "inf" THEN "inf%" ELSE Fmt2(p.n * 100, p.d) \o "%"

\* message_content of send_to_discord (name and sector lines left out).
message_content(ticker, close, pct, sm, pe, dy) ==
    ticker \o " | P/E: " \o pe \o " | yield: " \o dy \o " | " \o sm
        \o " | close: $" \o Fmt2(close, 100) \o " | change: " \o FmtPct(pct)

ReportPost(ticker, close, pct, sm, pe, dy, out) ==
    [kind |-> "report",
     ticker |-> ticker,
     content |-> message_content(ticker, close, pct, sm, pe, dy),
     file |-> ticker \o "_1Y.png",
     raised |-> out.raised,
     status |-> out.status]

-----------------------------------------------------------------------------
(* The process *)

Init ==
    /\ mode \in Modes
    /\ WEBHOOK_URL \in WebhookValues
    /\ pc = "startup"
    /\ exit_code = 0 - 1
    /\ tickers = <<>>
    /\ data = [empty |-> TRUE, close |-> <<>>]
    /\ top_10 = <<>>
    /\ idx = 0
    /\ close_price = 0
    /\ info = InfoRaises
    /\ summary = ""
    /\ pe_ratio = ""
    /\ div_yield = ""
    /\ sink = <<>>
    /\ net_calls = {}
    /\ rendered = {}
    /\ attempted = <<>>
    /\ skipped = {}
    /\ translation = "none"
    /\ pending_pace = FALSE

locals == <<close_price, info, summary, pe_ratio, div_yield, translation>>

\* Startup that tests WEBHOOK_URL against None only: an empty address passes.
StartupNoneOnly ==
    /\ pc = "startup"
    /\ IF WEBHOOK_URL = "<unset>"
       THEN pc' = "exited" /\ exit_code' = 1
       ELSE pc' = "main" /\ UNCHANGED exit_code
    /\ UNCHANGED <<skipped, attempted, mode, WEBHOOK_URL, tickers, data, top_10, idx,
                   locals, sink, net_calls, rendered, pending_pace>>

\* if not WEBHOOK_URL: print(...); sys.exit(1)     (module level, before main)
Startup ==
    /\ pc = "startup"
    /\ IF Falsy(WEBHOOK_URL)
       THEN pc' = "exited" /\ exit_code' = 1
       ELSE pc' = "main" /\ UNCHANGED exit_code
    /\ UNCHANGED <<skipped, attempted, mode, WEBHOOK_URL, tickers, data, top_10, idx, locals, sink,
                   net_calls, rendered, pending_pace>>

\* sp500_info = get_sp500_tickers_info(); tickers = list(sp500_info.keys());
\* if not tickers: tickers = ['AAPL', 'NVDA', 'MSFT']
\* get_sp500_tickers_info returns {} on any exception.
GetTickers ==
    /\ pc = "main"
    /\ \E wiki \in {"ok", "raise"} :
         LET keys == IF wiki = "ok" THEN WikiTickers ELSE <<>>
         IN  tickers' = IF keys = <<>> THEN FALLBACK ELSE keys
    /\ net_calls' = net_calls \cup {"constituents"}
    /\ pc' = "download"
    /\ UNCHANGED <<skipped, attempted, mode, WEBHOOK_URL, exit_code, data, top_10, idx, locals, sink,
                   rendered, pending_pace>>

\* data = yf.download(tickers, period="5d", progress=False)['Close']
\* The call is outside any try: an exception ends the process.
Download ==
    /\ pc = "download"
    /\ net_calls' = net_calls \cup {"prices_5d"}
    /\ \/ /\ pc' = "crashed" /\ exit_code' = 1
          /\ UNCHANGED data
       \/ /\ data' = [empty |-> TRUE, close |-> <<>>]
          /\ pc' = "rank" /\ UNCHANGED exit_code
       \/ /\ \E close \in [Range(tickers) -> ShortSeries] :
               data' = [empty |-> FALSE, close |-> close]
          /\ pc' = "rank" /\ UNCHANGED exit_code
    /\ UNCHANGED <<skipped, attempted, mode, WEBHOOK_URL, tickers, top_10, idx, locals, sink,
                   rendered, pending_pace>>

\* Rank whose emptiness test does not return: the run goes on to the header.
RankWithoutReturn ==
    /\ pc = "rank"
    /\ IF data.empty
       THEN /\ pc' = "header" /\ UNCHANGED exit_code
            /\ UNCHANGED top_10
       ELSE /\ top_10' = selectTop(tickers, data.close, TopN, Direction(mode))
            /\ pc' = "header" /\ UNCHANGED exit_code
    /\ UNCHANGED <<skipped, attempted, mode, WEBHOOK_URL, tickers, data, idx, locals,
                   sink, net_calls, rendered, pending_pace>>

\* if data.empty: return
\* returns = data.pct_change().iloc[-1]; top_10 = returns.nlargest(10)
Rank ==
    /\ pc = "rank"
    /\ IF data.empty
       THEN /\ pc' = "done" /\ exit_code' = 0
            /\ UNCHANGED top_10
       ELSE /\ top_10' = selectTop(tickers, data.close, TopN, Direction(mode))
            /\ pc' = "header" /\ UNCHANGED exit_code
    /\ UNCHANGED <<skipped, attempted, mode, WEBHOOK_URL, tickers, data, idx, locals, sink,
                   net_calls, rendered, pending_pace>>

\* The for statement: take entity i of top_10, or leave main when there is none.
Advance(i) ==
    /\ idx' = i
    /\ IF i > Len(top_10)
       THEN pc' = "done" /\ exit_code' = 0 /\ UNCHANGED attempted
       ELSE /\ pc' = "fetch" /\ UNCHANGED exit_code
            /\ attempted' = Append(attempted, top_10[i][1])

\* SendHeader that enters the loop without posting the header.
SendHeaderMissing ==
    /\ pc = "header"
    /\ Advance(1)
    /\ UNCHANGED <<skipped, mode, WEBHOOK_URL, tickers, data, top_10, locals, sink,
                   net_calls, rendered, pending_pace>>

\* requests.post(WEBHOOK_URL, json={"content": ...}), outside any try; the
\* response is not looked at.
SendHeader ==
    /\ pc = "header"
    /\ \E out \in PostOutcomes :
         /\ sink' = Append(sink, HeaderPost(mode, out))
         /\ IF out.raised
            THEN pc' = "crashed" /\ exit_code' = 1 /\ UNCHANGED <<idx, attempted>>
            ELSE Advance(1)
    /\ UNCHANGED <<skipped, mode, WEBHOOK_URL, tickers, data, top_10, locals, net_calls,
                   rendered, pending_pace>>

ticker_of(i) == top_10[i][1]
pct_of(i) == top_10[i][2]

\* FetchLong without the "if stock_data.empty: continue" line.
FetchLongNoSkip ==
    /\ pc = "fetch"
    /\ net_calls' = net_calls \cup {"prices_1y"}
    /\ \/ /\ pc' = "except"
          /\ UNCHANGED <<idx, exit_code, attempted, skipped>>
       \/ /\ skipped' = skipped \cup {ticker_of(idx)}
          /\ pc' = "close"
          /\ UNCHANGED <<idx, exit_code, attempted>>
       \/ /\ pc' = "close"
          /\ UNCHANGED <<idx, exit_code, attempted, skipped>>
    /\ UNCHANGED <<mode, WEBHOOK_URL, tickers, data, top_10, locals, sink,
                   rendered, pending_pace>>

\* try: stock_data = yf.download(ticker, period="1y", progress=False)
\*      if stock_data.empty: continue
FetchLong ==
    /\ pc = "fetch"
    /\ net_calls' = net_calls \cup {"prices_1y"}
    /\ \/ /\ pc' = "except"                                   \* the call raises
          /\ UNCHANGED <<idx, exit_code, attempted, skipped>>
       \/ /\ skipped' = skipped \cup {ticker_of(idx)}          \* empty: continue
          /\ Advance(idx + 1)
       \/ /\ pc' = "close"
          /\ UNCHANGED <<idx, exit_code, attempted, skipped>>
    /\ UNCHANGED <<mode, WEBHOOK_URL, tickers, data, top_10, locals, sink,
                   rendered, pending_pace>>

\* close_price = stock_data['Close'].iloc[-1].item()
DeriveClose ==
    /\ pc = "close"
    /\ \/ pc' = "except" /\ UNCHANGED close_price              \* .item() raises
       \/ \E c \in LongCloses : close_price' = c /\ pc' = "render"
    /\ UNCHANGED <<skipped, attempted, mode, WEBHOOK_URL, exit_code, tickers, data,
                   top_10, idx, info, summary, pe_ratio, div_yield, translation,
                   sink, net_calls, rendered, pending_pace>>

\* plt.figure(...) ... buf = io.BytesIO(); plt.savefig(buf, format='png'); plt.close()
Render ==
    /\ pc = "render"
    /\ \/ pc' = "except" /\ UNCHANGED rendered                 \* plotting raises
       \/ rendered' = rendered \cup {ticker_of(idx)} /\ pc' = "enrich"
    /\ UNCHANGED <<skipped, attempted, mode, WEBHOOK_URL, exit_code, tickers, data, top_10, idx, locals,
                   sink, net_calls, pending_pace>>

\* summary, pe_ratio, div_yield = get_company_details(ticker[, close_price])
EnrichFrom(infos) ==
    /\ pc = "enrich"
    /\ \E resp \in {InfoRaises} \cup {InfoOk(i) : i \in infos}, tr \in {"ok", "raise"} :
         LET r == get_company_details(mode, resp, tr, close_price)
         IN  /\ info' = resp
             /\ summary' = r.summary
             /\ pe_ratio' = r.pe_ratio
             /\ div_yield' = r.div_yield
             /\ translation' = IF r.translated THEN tr ELSE "none"
             /\ net_calls' = net_calls \cup {"info"}
                               \cup (IF r.translated THEN {"translate"} ELSE {})
             /\ pending_pace' = (pending_pace \/ r.translated)
    /\ pc' = "send"
    /\ UNCHANGED <<skipped, attempted, mode, WEBHOOK_URL, exit_code, tickers, data, top_10, idx,
                   close_price, sink, rendered>>

Enrich == EnrichFrom(PipelineInfos)

\* Send placed outside the try statement: an exception of requests.post ends
\* the process.
SendUncaught ==
    /\ pc = "send"
    /\ \E out \in PostOutcomes :
         /\ sink' = Append(sink, ReportPost(ticker_of(idx), close_price, pct_of(idx),
                                            summary, pe_ratio, div_yield, out))
         /\ IF out.raised
            THEN pc' = "crashed" /\ exit_code' = 1
            ELSE pc' = "sleep" /\ UNCHANGED exit_code
    /\ UNCHANGED <<skipped, attempted, mode, WEBHOOK_URL, tickers, data, top_10, idx,
                   locals, net_calls, rendered, pending_pace>>

\* send_to_discord(ticker, company_info, close_price, pct, buf, summary, pe_ratio,
\* div_yield): one requests.post; a response that is not 200/204 is printed
\* (sp500_tracker.py) or ignored (sp500_losers.py); an exception leaves the try
\* body, so the time.sleep(1) after the call is not reached.
Send ==
    /\ pc = "send"
    /\ \E out \in PostOutcomes :
         /\ sink' = Append(sink, ReportPost(ticker_of(idx), close_price, pct_of(idx),
                                            summary, pe_ratio, div_yield, out))
         /\ pc' = IF out.raised THEN "except" ELSE "sleep"
    /\ UNCHANGED <<skipped, attempted, mode, WEBHOOK_URL, exit_code, tickers, data, top_10, idx, locals,
                   net_calls, rendered, pending_pace>>

\* time.sleep(1), then the next entity.
Sleep ==
    /\ pc = "sleep"
    /\ pending_pace' = FALSE
    /\ Advance(idx + 1)
    /\ UNCHANGED <<skipped, mode, WEBHOOK_URL, tickers, data, top_10, locals, sink,
                   net_calls, rendered>>

\* except Exception as e: print(...), then the next entity.
Except ==
    /\ pc = "except"
    /\ Advance(idx + 1)
    /\ UNCHANGED <<skipped, mode, WEBHOOK_URL, tickers, data, top_10, locals, sink,
                   net_calls, rendered, pending_pace>>

Next ==
    \/ Startup \/ GetTickers \/ Download \/ Rank \/ SendHeader
    \/ FetchLong \/ DeriveClose \/ Render \/ Enrich \/ Send \/ Sleep \/ Except

Spec == Init /\ [][Next]_vars

\* One thread of control runs the statements in program order and every call
\* of the model returns or raises, so an enabled step is eventually taken.
FairSpec == Spec /\ WF_vars(Next)

-----------------------------------------------------------------------------
(* Ranking runs: the process stands at the ranking step with a Close table *)
(* of NumRankTickers columns.                                              *)

RankTickers == [i \in 1..NumRankTickers |-> "T" \o ToString(i)]

\* Column i moves by ((3 i) mod 7) - 3 percent: columns i and i + 7 tie.
BaseSeries(i) == <<Cell(10000), Cell(10000 + 100 * (((i * 3) % 7) - 3))>>

SpecialSeries ==
    { <<Cell(0), Cell(500)>>,            \* prior close 0, last close positive
      <<Cell(0), Cell(0)>>,              \* prior close 0, last close 0
      <<Cell(10000), NaNCell>>,          \* no last close
      <<NaNCell, Cell(10000)>> }         \* no prior close

RankTable(S, f) ==
    [t \in Range(RankTickers) |->
        LET i == CHOOSE j \in 1..NumRankTickers : RankTickers[j] = t
        IN  IF i \in S THEN f[i] ELSE BaseSeries(i)]

InitRank ==
    /\ mode \in Modes
    /\ WEBHOOK_URL = "https://discord.example/api/webhooks/1"
    /\ pc = "rank"
    /\ exit_code = 0 - 1
    /\ tickers = RankTickers
    /\ \E S \in SUBSET (1..NumRankTickers) :
         /\ Cardinality(S) <= MaxSpecial
         /\ \E f \in [S -> SpecialSeries] :
              data = [empty |-> FALSE, close |-> RankTable(S, f)]
    /\ top_10 = <<>>
    /\ idx = 0
    /\ close_price = 0
    /\ info = InfoRaises
    /\ summary = ""
    /\ pe_ratio = ""
    /\ div_yield = ""
    /\ sink = <<>>
    /\ net_calls = {"constituents", "prices_5d"}
    /\ rendered = {}
    /\ attempted = <<>>
    /\ skipped = {}
    /\ translation = "none"
    /\ pending_pace = FALSE

SpecRank == InitRank /\ [][Rank]_vars

-----------------------------------------------------------------------------
(* Enrichment runs: the process stands at the call of get_company_details  *)
(* for the first entity of a fallback-list run.                            *)

YieldTable ==
    [t \in Range(FALLBACK) |->
        IF t = "NVDA" THEN <<Cell(10000), Cell(9000)>> ELSE <<Cell(10000), Cell(11000)>>]

InitYield ==
    /\ mode \in Modes
    /\ WEBHOOK_URL = "https://discord.example/api/webhooks/1"
    /\ pc = "enrich"
    /\ exit_code = 0 - 1
    /\ tickers = FALLBACK
    /\ data = [empty |-> FALSE, close |-> YieldTable]
    /\ top_10 = selectTop(FALLBACK, YieldTable, TopN, Direction(mode))
    /\ idx = 1
    /\ close_price \in YieldCloses
    /\ info = InfoRaises
    /\ summary = ""
    /\ pe_ratio = ""
    /\ div_yield = ""
    /\ sink = <<HeaderPost(mode, [raised |-> FALSE, status |-> 204])>>
    /\ net_calls = {"constituents", "prices_5d", "prices_1y"}
    /\ rendered = {top_10[1][1]}
    /\ attempted = <<top_10[1][1]>>
    /\ skipped = {}
    /\ translation = "none"
    /\ pending_pace = FALSE

EnrichAny == EnrichFrom(YieldInfos)

SpecYield == InitYield /\ [][EnrichAny]_vars

-----------------------------------------------------------------------------
(* Properties *)

Terminal == {"done", "exited", "crashed"}

HeaderCount == Cardinality({i \in DOMAIN sink : sink[i].kind = "header"})

Reports == SelectSeq(sink, LAMBDA m : m.kind = "report")

ReportsFor(t) == {i \in DOMAIN sink : sink[i].kind = "report" /\ sink[i].ticker = t}

RankedTickers == [i \in 1..Len(top_10) |-> top_10[i][1]]

\* The run got past the endpoint check and ranked a non-empty Close table,
\* and the header statement has been executed.
HeaderDue == ~data.empty /\ pc \notin {"startup", "main", "download", "rank", "header"}

\* C1 (as stated): in every run the header post is made exactly once, and
\* before any per-entity post.
C1_HeaderOnceInEveryRun ==
    pc \in Terminal =>
        /\ HeaderCount = 1
        /\ sink[1].kind = "header"

\* C1 (amended): the header post is made exactly once, and before any
\* per-entity post, in every run that passes the endpoint check and obtains a
\* non-empty short-window Close table; a run that ends before that (endpoint
\* not configured, batched price fetch raising or returning nothing) makes no
\* header post at all.
C1_HeaderOnceBeforeReports ==
    /\ HeaderCount = (IF HeaderDue THEN 1 ELSE 0)
    /\ \A i \in DOMAIN sink :
         sink[i].kind = "report" => (i > 1 /\ sink[1].kind = "header")

C1_Witness ==
    /\ pc = "done"
    /\ HeaderCount = 1
    /\ Len(Reports) >= 2

\* C2: once the loop is entered no failure of a step of an iteration (and no
\* non-success response of the sink) ends the process; every run that enters
\* the loop reaches Done with every entity of the ranked set attempted.
C2_FailureContainment ==
    /\ [](pc = "crashed" => idx = 0)
    /\ (idx >= 1) ~> (pc = "done" /\ exit_code = 0 /\ attempted = RankedTickers)

C2_Witness ==
    /\ pc = "done"
    /\ Len(top_10) = 3
    /\ attempted = RankedTickers
    /\ RankedTickers[1] \notin rendered
    /\ RankedTickers[1] \notin skipped
    /\ \E i \in DOMAIN sink : sink[i].kind = "report" /\ sink[i].raised
    /\ \E i \in DOMAIN sink : sink[i].kind = "report" /\ sink[i].status = 500

\* C3: the per-entity posts follow the order of the ranked set, no entity is
\* posted twice, an entity whose 1-year series is empty is neither rendered
\* nor posted, and the loop still goes through the whole ranked set.
C3_OrderedAtMostOnce ==
    /\ \A i, j \in DOMAIN Reports :
         i < j =>
            /\ Reports[i].ticker # Reports[j].ticker
            /\ \E a, b \in DOMAIN top_10 :
                 /\ a < b
                 /\ top_10[a][1] = Reports[i].ticker
                 /\ top_10[b][1] = Reports[j].ticker
    /\ \A i \in DOMAIN Reports : \E a \in DOMAIN top_10 : top_10[a][1] = Reports[i].ticker
    /\ \A t \in skipped : t \notin rendered /\ ReportsFor(t) = {}
    /\ (pc = "done" /\ idx >= 1) => attempted = RankedTickers

C3_Witness ==
    /\ pc = "done"
    /\ Len(top_10) = 3
    /\ RankedTickers[2] \in skipped
    /\ Len(Reports) = 2
    /\ Reports[1].ticker = RankedTickers[1]
    /\ Reports[2].ticker = RankedTickers[3]

HeaderFailed == sink[1].raised \/ sink[1].status \notin {200, 204}

\* C4: a failed header post (an exception or a non-success response) is not
\* fatal; the run goes on with the selected entities.
C4_HeaderFailureNotFatal ==
    (HeaderCount >= 1 /\ HeaderFailed) => pc # "crashed"

\* The batched short-window fetch returned an empty table.
DownloadedEmpty == "prices_5d" \in net_calls /\ data.empty /\ pc # "crashed"

\* C5: when the batched short-window fetch returns nothing the run ends
\* without ranking and without any post, header included.
C5_EmptyFetchAborts ==
    DownloadedEmpty =>
        /\ pc \in {"rank", "done"}
        /\ top_10 = <<>>
        /\ idx = 0
        /\ sink = <<>>
        /\ (pc = "done" => exit_code = 0)

C5_Witness == DownloadedEmpty /\ pc = "done"

\* C6: with no endpoint address configured the process exits with a non-zero
\* status before any fetch and before any post.
C6_MissingEndpointExits ==
    Falsy(WEBHOOK_URL) =>
        /\ pc \in {"startup", "exited"}
        /\ (pc = "exited" => exit_code = 1)
        /\ net_calls = {}
        /\ sink = <<>>

C6_Witness == pc = "exited" /\ WEBHOOK_URL = "" /\ exit_code = 1

\* The change ratio of column t is defined: two points and a non-zero prior.
ChangeDefined(t) ==
    LET col == data.close[t]
    IN  /\ ~IsNaNCell(col[1])
        /\ ~IsNaNCell(col[2])
        /\ col[1][1] # 0

\* C7: the ranked set has at most 10 entries, no entity twice, no entity
\* whose change ratio is undefined (fewer than 2 points, or prior value 0),
\* and is ordered by change ratio, descending for gainers and ascending for
\* losers.
C7_RankingContract ==
    pc = "header" =>
        /\ Len(top_10) <= TopN
        /\ \A i, j \in DOMAIN top_10 : i # j => top_10[i][1] # top_10[j][1]
        /\ \A i \in DOMAIN top_10 : ChangeDefined(top_10[i][1])
        /\ \A i, j \in DOMAIN top_10 :
             i < j => IF mode = "gainers"
                      THEN ~FloatLess(top_10[i][2], top_10[j][2])
                      ELSE ~FloatLess(top_10[j][2], top_10[i][2])

\* The metadata provider or the translation call failed for the current entity.
EnrichFailed == ~info.ok \/ translation = "raise"

Sentinels == {"summary unavailable (translation failed)", "summary unavailable"}

\* C8: when the metadata provider or the translation call fails for an
\* entity, get_company_details raises nothing and returns the sentinel
\* summary with "N/A" for both ratios, and the report of that entity is
\* assembled with these values and posted exactly once.
C8_EnrichmentNeverFails ==
    /\ (pc = "send" /\ EnrichFailed) =>
          /\ summary \in Sentinels
          /\ pe_ratio = "N/A"
          /\ div_yield = "N/A"
          /\ ReportsFor(ticker_of(idx)) = {}
    /\ (pc \in {"sleep", "except"} /\ ticker_of(idx) \in rendered) =>
          /\ Cardinality(ReportsFor(ticker_of(idx))) = 1
          /\ sink[Len(sink)].ticker = ticker_of(idx)
          /\ EnrichFailed =>
               \E sm \in Sentinels :
                  sink[Len(sink)].content =
                     message_content(ticker_of(idx), close_price, pct_of(idx),
                                     sm, "N/A", "N/A")

C8_Witness ==
    /\ pc = "sleep"
    /\ info.ok
    /\ translation = "raise"
    /\ sink[Len(sink)].ticker = ticker_of(idx)

\* The yield get_company_details has to produce for the inputs of the
\* enrichment runs, when the trailing amount is used (rate in cents, close in
\* cents).
RecomputedYield(rate, close) ==
    CASE rate <= 0 -> "0.00%"
      [] rate = 1 /\ close = 300 -> "0.33%"
      [] rate = 1 /\ close = 10000 -> "0.01%"
      [] rate = 200 /\ close = 300 -> "66.67%"
      [] rate = 200 /\ close = 10000 -> "2.00%"

\* The raw ratio (in units of 0.0001) scaled by 100.
ScaledYield(raw) ==
    CASE raw = 0 -> "0.00%"
      [] raw = 450 -> "4.50%"
      [] raw = 3000 -> "30.00%"
      [] raw = 3500 -> "35.00%"

\* The raw ratio under the unit heuristic: above 0.3 it is printed as it is.
HeuristicYield(raw) == IF raw = 3500 THEN "0.35%" ELSE ScaledYield(raw)

\* The trailing amount and a close price > 0 are available to get_company_details
\* (only sp500_losers.py passes the close price).
TrailingUsable ==
    /\ mode = "losers"
    /\ IsNumber(info.info.trailingAnnualDividendRate)
    /\ close_price > 0

\* C9 (as stated): trailing amount / close x 100 when both are available,
\* "0.00%" when that is not positive; otherwise the raw ratio times 100
\* (0.045 gives "4.50%", 0.35 gives "35.00%"); "N/A" with neither.
C9_YieldAsStated ==
    (pc = "send" /\ ~EnrichFailed) =>
        div_yield =
            IF TrailingUsable
            THEN RecomputedYield(info.info.trailingAnnualDividendRate[2], close_price)
            ELSE IF IsNumber(info.info.dividendYield)
                 THEN ScaledYield(info.info.dividendYield[2])
                 ELSE "N/A"

\* C9 (amended): as stated, except that sp500_losers.py prints a raw ratio
\* above 0.3 as it is: 0.35 gives "0.35%" there, and "35.00%" only in
\* sp500_tracker.py, which always scales the raw ratio by 100.
C9_YieldNormalization ==
    (pc = "send" /\ ~EnrichFailed) =>
        div_yield =
            IF TrailingUsable
            THEN RecomputedYield(info.info.trailingAnnualDividendRate[2], close_price)
            ELSE IF IsNumber(info.info.dividendYield)
                 THEN (IF mode = "losers"
                       THEN HeuristicYield(info.info.dividendYield[2])
                       ELSE ScaledYield(info.info.dividendYield[2]))
                 ELSE "N/A"

C9_Witness ==
    /\ pc = "send"
    /\ mode = "losers"
    /\ ~EnrichFailed
    /\ close_price = 0
    /\ info.info.trailingAnnualDividendRate = Num(200)
    /\ info.info.dividendYield = Num(3500)
    /\ div_yield = "0.35%"

\* C10: when an entity's enrichment made a translation call, the delay is
\* observed before the next entity's enrichment begins, whatever path the
\* iteration took.
C10_PacedBeforeNextEntity == pc = "enrich" => ~pending_pace

====
